---- MODULE Spec2Model ----
(***************************************************************************)
(* LobsterFoundryAgent (skills/lobsterfoundry-pax/scripts/lobster_agent.py) *)
(* as a state machine: one foreground caller, the background _ws_run       *)
(* threads started by connect_websocket, the WebSocketApp objects they     *)
(* drive, and the Mirror fields written from inbound frames.               *)
(***************************************************************************)
EXTENDS Integers, Sequences, FiniteSets, TLC

\* ------------------------------------------------------------------ bounds
\* connect_websocket calls that create a WebSocketApp and a thread, in the
\* runs of Spec; the runs of SpecTwo have one more
MaxThreads == 1

\* BOT_ACTION frames on the connections that are open at one time
MaxActions == 1

\* iterations of the wait loop of connect_websocket followed one by one; the
\* iterations after them, up to PollLimit, pass in one step (the background
\* threads do nothing in between)
MaxPolls == 1

\* command-line processes run one after the other in the runs of SpecCli
MaxRuns == 2

\* range(50) of the wait loop in connect_websocket
PollLimit == 50

Threads == 1..(MaxThreads + 1)

\* ----------------------------------------------------------- Python values
\* Python's None; dicts are records, a missing key is a missing field
None == [none |-> TRUE]

\* d.get(k): the value under k, None when the key is missing
Get(d, k) == IF k \in DOMAIN d THEN d[k] ELSE None

\* d.get(k, default)
GetOr(d, k, default) == IF k \in DOMAIN d THEN d[k] ELSE default

\* d[k] = v
SetItem(d, k, v) == [j \in DOMAIN d \cup {k} |-> IF j = k THEN v ELSE d[j]]

\* -------------------------------------------------------- inbound frames
Avatar1 == [x |-> 10, y |-> 5, name |-> "Bot1"]

FAuthSuccess == [type |-> "AUTH_SUCCESS", avatar |-> Avatar1, wallet |-> [cc |-> 0]]

FAuthSuccessBare == [type |-> "AUTH_SUCCESS", wallet |-> [cc |-> 5], license |-> [tier |-> "CITIZEN"]]

FAuthFailed == [type |-> "AUTH_FAILED", error |-> "bad token"]

FActionMove == [type |-> "ACTION_RESULT", success |-> TRUE, data |-> [x |-> 12, y |-> 5]]

FActionState == [type |-> "ACTION_RESULT", success |-> TRUE, data |-> [state |-> "working"]]

FActionFailed == [type |-> "ACTION_RESULT", success |-> FALSE, data |-> [x |-> 99]]

FActionNoFlag == [type |-> "ACTION_RESULT", data |-> [state |-> "lost"]]

FWorldState == [type |-> "WORLD_STATE", state |-> [tick |-> 1]]

FWorldState2 == [type |-> "WORLD_STATE", state |-> [season |-> "dry"]]

FAvatarUpdate == [type |-> "AVATAR_UPDATE", avatar |-> [x |-> 1, y |-> 1, name |-> "Other"]]

FLedgerEvent == [type |-> "LEDGER_EVENT", event |-> [type |-> "MINT", id |-> "e1"], wallet |-> [cc |-> 9]]

FLedgerNoDict == [type |-> "LEDGER_EVENT", event |-> [list |-> TRUE]]

FFutureEvent == [type |-> "FUTURE_EVENT", avatar |-> [x |-> 0]]

FNoType == [state |-> [tick |-> 2]]

\* the frames the server may push on an open channel
Frames == {FAuthSuccess, FAuthSuccessBare, FAuthFailed, FActionMove, FActionState, FActionFailed, FActionNoFlag, FWorldState, FWorldState2, FAvatarUpdate, FLedgerEvent, FLedgerNoDict, FFutureEvent, FNoType}

\* a JSON value that is no object (a list): it has no get attribute
JsonList == [list |-> TRUE]

\* a text message that is no JSON
NotJson == [text |-> "not json"]

\* the text messages the server may push: the JSON text of a value, or
\* text that is no JSON
Messages == {[json |-> v] : v \in Frames \cup {JsonList}} \cup {NotJson}

\* json.loads(message): the value, or JSONDecodeError
json_loads(message) ==
  IF "json" \in DOMAIN message
    THEN [ok |-> TRUE, value |-> message.json]
    ELSE [ok |-> FALSE]

\* the value is a dict
IsDict(v) == v # None /\ v # JsonList /\ v # NotJson

\* the message types _handle_ws_message has a branch for
KnownTypes == {"AUTH_SUCCESS", "AUTH_FAILED", "ACTION_RESULT", "WORLD_STATE", "AVATAR_UPDATE", "LEDGER_EVENT"}

\* ------------------------------------------------------ credentials file
\* an Identity: strings are sequences of characters
Identity1 == [api_key |-> <<"k", "1">>, bot_id |-> <<"b", "1">>]

\* the JSON text of a string, between its quotes: json.dump escapes the
\* quote and the backslash
Escape(c) == IF c \in {"\"", "\\"} THEN <<"\\", c>> ELSE <<c>>

RECURSIVE encode_string(_)
encode_string(s) ==
  IF s = << >> THEN << >> ELSE Escape(Head(s)) \o encode_string(Tail(s))

\* the string of a JSON text between quotes: a backslash gives the
\* character after it, a bare quote ends the string
RECURSIVE decode_string(_)
decode_string(e) ==
  IF e = << >>
    THEN << >>
    ELSE IF Head(e) = "\\"
           THEN IF Len(e) >= 2 THEN <<e[2]>> \o decode_string(Tail(Tail(e))) ELSE << >>
           ELSE IF Head(e) = "\""
                  THEN << >>
                  ELSE <<Head(e)>> \o decode_string(Tail(e))

\* a variant of json.dump that writes the strings as they are
json_dump_NoEscape(creds) ==
  <<[tok |-> "{"],
    [key |-> "api_key", string |-> creds.api_key],
    [key |-> "bot_id", string |-> creds.bot_id],
    [tok |-> "}"]>>

\* json.dump(creds, f, indent=2): the text of the file, as its tokens
json_dump(creds) ==
  <<[tok |-> "{"],
    [key |-> "api_key", string |-> encode_string(creds.api_key)],
    [key |-> "bot_id", string |-> encode_string(creds.bot_id)],
    [tok |-> "}"]>>

\* the text is a whole JSON object
WellFormed(text) ==
  /\ Len(text) >= 2
  /\ text[1] = [tok |-> "{"]
  /\ text[Len(text)] = [tok |-> "}"]
  /\ \A i \in 2..(Len(text) - 1) : "key" \in DOMAIN text[i]

\* json.load(f): the dict of the text, or JSONDecodeError
json_load(text) ==
  IF WellFormed(text)
    THEN [ok |-> TRUE,
          value |-> [k \in {text[i].key : i \in 2..(Len(text) - 1)} |->
                       decode_string(text[CHOOSE i \in 2..(Len(text) - 1) : text[i].key = k].string)]]
    ELSE [ok |-> FALSE]

\* a second Identity, with a quote and a backslash in its strings
Identity2 == [api_key |-> <<"k", "\"">>, bot_id |-> <<"\\", "b">>]

Identities == {Identity1, Identity2}

\* os.chmod(CREDENTIALS_FILE, 0o600): the mode 0o600
OwnerOnly == 384

\* the mode open(CREDENTIALS_FILE, 'w') gives a file it creates: 0o666
\* without the bits of the process's umask, 0o644 under the usual umask 022
\* and 0o600 under umask 077
CreateModes == {420, OwnerOnly}

\* CREDENTIALS_FILE as save_credentials leaves it
SavedFile(creds) == [text |-> json_dump(creds), mode |-> OwnerOnly]

\* ------------------------------------------------- request/response results
RegisterResults == {[ok |-> TRUE, api_key |-> Identity1.api_key, bot_id |-> Identity1.bot_id], [ok |-> FALSE]}

AuthResults == {[ok |-> TRUE, assignedAvatar |-> Avatar1], [ok |-> TRUE], [ok |-> FALSE]}

StatusResults == {[ok |-> TRUE, wallet |-> [cc |-> 0], avatar |-> Avatar1], [ok |-> TRUE, wallet |-> [cc |-> 5]], [ok |-> TRUE, avatar |-> Avatar1], [ok |-> FALSE]}

TaskResults == {[ok |-> TRUE], [ok |-> FALSE]}

\* what the transport can give for a request whose JSON replies are bodies:
\* a 2xx reply with a JSON body or with a body that is no JSON, an HTTP
\* error status with a JSON body or without, a refused connection, a
\* timeout while connecting and a timeout while reading the reply
Outcomes(bodies) ==
  {[kind |-> "ok_json", body |-> d] : d \in bodies}
    \cup {[kind |-> "ok_undecodable"],
          [kind |-> "http_error_json", body |-> [ok |-> FALSE, message |-> "denied"]],
          [kind |-> "http_error_text"],
          [kind |-> "refused"],
          [kind |-> "timeout_connect"],
          [kind |-> "timeout_read"]}

Returned(value) == [raised |-> FALSE, value |-> value]

Raises(exc) == [raised |-> TRUE, exc |-> exc]

\* api_request: json.loads of the 2xx body; except HTTPError: json.loads of
\* the error body, or the 'HTTP code' result; except URLError: the
\* 'Connection error' result; nothing else is caught (urlopen wraps in
\* URLError what fails while connecting and sending, not a timeout of the
\* read)
api_request(o) ==
  CASE o.kind = "ok_json" -> Returned(o.body)
    [] o.kind = "ok_undecodable" -> Raises("JSONDecodeError")
    [] o.kind = "http_error_json" -> Returned(o.body)
    [] o.kind = "http_error_text" -> Returned([ok |-> FALSE, message |-> "HTTP"])
    [] o.kind \in {"refused", "timeout_connect"} -> Returned([ok |-> FALSE, message |-> "Connection error"])
    [] o.kind = "timeout_read" -> Raises("TimeoutError")

\* result.get('ok')
Ok(d) == GetOr(d, "ok", FALSE)

ActionOps == {"move_to", "interact_with", "read_notices", "accept_quest", "celebrate"}

\* the 'action' field each action operation puts in its BOT_ACTION frame
ActionKind(op) ==
  CASE op = "move_to" -> "MOVE"
    [] op = "interact_with" -> "INTERACT"
    [] op = "read_notices" -> "READ"
    [] op = "accept_quest" -> "ACCEPT_QUEST"
    [] op = "celebrate" -> "CELEBRATE"

VARIABLES
  threadLimit,    \* how many connect_websocket calls of this run may get
                  \* as far as creating a WebSocketApp and a thread
  HAS_WEBSOCKET,  \* whether the websocket library was imported
  credFile,       \* content of CREDENTIALS_FILE, None when it does not exist
  credentials, ws, connected, avatar, wallet, license, world_state, _running,
  sock,           \* per WebSocketApp: the thread whose run_forever opened
                  \* the socket it holds, 0 when it holds none
  pc,             \* per _ws_run thread: where it is
  ran,            \* per _ws_run thread: it has called run_forever before
  sent,           \* per WebSocketApp: the types of the frames put on the
                  \* connection it holds, in order
  lastSent,       \* the frame put on a connection in the last step, None
                  \* after any other step
  lastReq,        \* the HTTP request made in the last step and whether its
                  \* result was ok, None after any other step
  fgpc,           \* the foreground caller's position
  inEnsure,       \* connect_websocket was called by ensure_connected
  polls,          \* iterations of the wait loop done
  act,            \* the action operation in progress
  wsOk,           \* how the connect_websocket call of the last
                  \* ensure_connected ended, "-" when there is none
  ret,            \* what the foreground call that returned in the last step
                  \* gave back, NoRet after any other step
  saved,          \* the Identity whose JSON text was last written to
                  \* CREDENTIALS_FILE in full, None when there is none
  script,         \* the script of the command-line process, "-" when the
                  \* agent is used as a library
  command,        \* its subcommand
  cpc,            \* where the process is
  exitCode,       \* how the process ended, None while it runs
  failed,         \* the process has printed a failure
  result,         \* what the last request of the process returned
  runs            \* processes started

vars == <<threadLimit, HAS_WEBSOCKET, credFile, credentials, ws, connected, avatar, wallet, license, world_state, _running, sock, pc, ran, sent, lastSent, lastReq, fgpc, inEnsure, polls, act, wsOk, ret, saved, script, command, cpc, exitCode, failed, result, runs>>

cli == <<script, command, cpc, exitCode, failed, result, runs>>

mirror == <<avatar, wallet, license, world_state>>

env == <<threadLimit, HAS_WEBSOCKET, credFile, saved, cli>>

bg == <<pc, ran>>

fgLocals == <<inEnsure, polls, act, wsOk>>

NoRet == [op |-> "-", ok |-> FALSE, msg |-> "-"]

Ret(op, ok, msg) == [op |-> op, ok |-> ok, msg |-> msg]

\* a step that makes no HTTP request
NoRequest == lastReq' = None

Req(endpoint, ok) == [endpoint |-> endpoint, ok |-> ok]

\* the request of the step ended in an exception
ReqRaised(endpoint) == [endpoint |-> endpoint, raised |-> TRUE]

\* a step that is no return, no send and no request
Quiet == ret' = NoRet /\ lastSent' = None /\ NoRequest

\* the agent after __init__, in a process where the library may be missing
\* and the credentials file may exist
Start ==
  /\ HAS_WEBSOCKET \in BOOLEAN
  /\ credFile \in {None, SavedFile(Identity1)}
  /\ credentials = None
  /\ ws = 0
  /\ connected = FALSE
  /\ avatar = None
  /\ wallet = None
  /\ license = None
  /\ world_state = None
  /\ _running = FALSE
  /\ sock = [a \in Threads |-> 0]
  /\ pc = [t \in Threads |-> "none"]
  /\ ran = [t \in Threads |-> FALSE]
  /\ sent = [a \in Threads |-> << >>]
  /\ lastSent = None
  /\ lastReq = None
  /\ fgpc = "idle"
  /\ inEnsure = FALSE
  /\ polls = 0
  /\ act = "-"
  /\ wsOk = "-"
  /\ ret = NoRet
  /\ saved = (IF credFile = None THEN None ELSE Identity1)
  /\ script = "-"
  /\ command = "-"
  /\ cpc = "none"
  /\ exitCode = None
  /\ failed = FALSE
  /\ result = None
  /\ runs = 0

Init == Start /\ threadLimit = MaxThreads

InitTwo == Start /\ threadLimit = MaxThreads + 1

\* ------------------------------------------------------ inbound dispatch
\* the agent fields _handle_ws_message reads and writes
Fields == [connected |-> connected, avatar |-> avatar, wallet |-> wallet, license |-> license, world_state |-> world_state, raised |-> FALSE]

\* the three conditional item assignments of the ACTION_RESULT branch
MergeAction(av, d) ==
  LET a1 == IF "x" \in DOMAIN d THEN SetItem(av, "x", d.x) ELSE av
      a2 == IF "y" \in DOMAIN d THEN SetItem(a1, "y", d.y) ELSE a1
  IN IF "state" \in DOMAIN d THEN SetItem(a2, "state", d.state) ELSE a2

\* if success: of the ACTION_RESULT branch
Success(data) == "success" \in DOMAIN data /\ data.success

\* a variant of the AUTH_SUCCESS branch that reads the license as
\* data.get('license', self.license)
HandleAuthSuccess_KeepLicense(data, s) ==
  [s EXCEPT !.connected = TRUE,
            !.avatar = Get(data, "avatar"),
            !.wallet = Get(data, "wallet"),
            !.license = GetOr(data, "license", s.license),
            !.raised = (Get(data, "avatar") = None)]

\* the AUTH_SUCCESS branch: four assignments, then a print that reads
\* self.avatar.get(...) and raises when the avatar is None
HandleAuthSuccess(data, s) ==
  [s EXCEPT !.connected = TRUE,
            !.avatar = Get(data, "avatar"),
            !.wallet = Get(data, "wallet"),
            !.license = Get(data, "license"),
            !.raised = (Get(data, "avatar") = None)]

\* a variant of the ACTION_RESULT branch without the test of success
HandleActionResult_NoSuccessTest(data, s) ==
  LET action_data == GetOr(data, "data", << >>)
  IN IF DOMAIN action_data \cap {"x", "y", "state"} = {}
       THEN s
       ELSE IF s.avatar = None
              THEN [s EXCEPT !.raised = TRUE]
              ELSE [s EXCEPT !.avatar = MergeAction(s.avatar, action_data)]

\* the ACTION_RESULT branch: the first item assignment raises when the
\* avatar is None
HandleActionResult(data, s) ==
  LET action_data == GetOr(data, "data", << >>)
  IN IF Success(data)
       THEN IF DOMAIN action_data \cap {"x", "y", "state"} = {}
              THEN s
              ELSE IF s.avatar = None
                     THEN [s EXCEPT !.raised = TRUE]
                     ELSE [s EXCEPT !.avatar = MergeAction(s.avatar, action_data)]
       ELSE s

\* a variant of the WORLD_STATE branch that updates the old snapshot with
\* the fields of the new one
HandleWorldState_Merge(data, s) ==
  LET new == Get(data, "state")
  IN [s EXCEPT !.world_state = [k \in DOMAIN s.world_state \cup DOMAIN new |->
                                  IF k \in DOMAIN new THEN new[k] ELSE s.world_state[k]]]

\* the WORLD_STATE branch
HandleWorldState(data, s) == [s EXCEPT !.world_state = Get(data, "state")]

\* a variant of the LEDGER_EVENT branch that takes the wallet of the frame
HandleLedgerEvent_Wallet(data, s) ==
  IF "wallet" \in DOMAIN data THEN [s EXCEPT !.wallet = data.wallet] ELSE s

\* the LEDGER_EVENT branch: a print of the event's type and id, which
\* raises when the event is no dict
HandleLedgerEvent(data, s) ==
  IF IsDict(GetOr(data, "event", << >>)) THEN s ELSE [s EXCEPT !.raised = TRUE]

\* a variant of the end of the if/elif chain that rejects a type without
\* a branch
HandleOther_Raises(data, s) == [s EXCEPT !.raised = TRUE]

\* a type without a branch: the if/elif chain has no else
HandleOther(data, s) == s

\* the value of the agent fields after _handle_ws_message(data); raised
\* tells that the handler ended with an exception (the library's callback
\* wrapper reports it to on_error and the receive loop goes on)
\* (data.get('type') raises when data is no dict)
_handle_ws_message(data, s) ==
  IF ~IsDict(data)
    THEN [s EXCEPT !.raised = TRUE]
    ELSE LET msg_type == GetOr(data, "type", "")
         IN CASE msg_type = "AUTH_SUCCESS" -> HandleAuthSuccess(data, s)
              [] msg_type = "AUTH_FAILED" -> s
              [] msg_type = "ACTION_RESULT" -> HandleActionResult(data, s)
              [] msg_type = "WORLD_STATE" -> HandleWorldState(data, s)
              [] msg_type = "AVATAR_UPDATE" -> s
              [] msg_type = "LEDGER_EVENT" -> HandleLedgerEvent(data, s)
              [] OTHER -> HandleOther(data, s)

\* the value of the agent fields after on_message(ws, message): json.loads,
\* then _handle_ws_message; only JSONDecodeError is caught
OnMessage(message, s) ==
  LET data == json_loads(message)
  IN IF data.ok THEN _handle_ws_message(data.value, s) ELSE s

\* some thread is in the receive loop of run_forever: a message can arrive
Receiving == \E t \in Threads : pc[t] = "recv"

\* ------------------------------------------------------------ foreground
\* a return of connect_websocket: to ensure_connected or to the caller
CwReturn(ok, msg) ==
  IF inEnsure
    THEN /\ fgpc' = "ec_status"
         /\ wsOk' = (IF ok THEN "ok" ELSE "failed")
         /\ inEnsure' = FALSE
         /\ ret' = NoRet
    ELSE /\ fgpc' = "idle"
         /\ wsOk' = "-"
         /\ inEnsure' = inEnsure
         /\ ret' = Ret("connect_websocket", ok, msg)

\* connect_websocket up to the start of the thread
ConnectStart ==
  /\ IF ~HAS_WEBSOCKET
       THEN CwReturn(FALSE, "WebSocket library not installed") /\ UNCHANGED <<ws, _running, pc, polls>>
       ELSE IF credentials = None
         THEN CwReturn(FALSE, "Not registered") /\ UNCHANGED <<ws, _running, pc, polls>>
         ELSE IF connected
           THEN CwReturn(TRUE, "Already connected") /\ UNCHANGED <<ws, _running, pc, polls>>
           ELSE /\ ws < threadLimit
                /\ ws' = ws + 1
                /\ _running' = TRUE
                /\ pc' = [pc EXCEPT ![ws + 1] = "test"]
                /\ fgpc' = "poll"
                /\ polls' = 0
                /\ ret' = NoRet
                /\ wsOk' = IF inEnsure THEN wsOk ELSE "-"
                /\ UNCHANGED inEnsure
  /\ lastSent' = None
  /\ NoRequest
  /\ UNCHANGED <<env, credentials, connected, mirror, sock, ran, sent, act>>

connect_websocket ==
  /\ fgpc = "idle"
  /\ ConnectStart

\* one iteration of the wait loop of connect_websocket, or its end
CwPoll ==
  /\ fgpc = "poll"
  /\ IF polls < PollLimit
       THEN IF connected
              THEN CwReturn(TRUE, "Connected") /\ polls' = 0
              ELSE /\ polls' = IF polls + 1 >= MaxPolls THEN PollLimit ELSE polls + 1
                   /\ ret' = NoRet
                   /\ UNCHANGED <<fgpc, inEnsure, wsOk>>
       ELSE CwReturn(FALSE, "Connection timeout") /\ polls' = 0
  /\ lastSent' = None
  /\ NoRequest
  /\ UNCHANGED <<env, credentials, ws, connected, mirror, _running, sock, bg, sent, act>>

\* a variant of disconnect_websocket without self.connected = False
disconnect_websocket_KeepFlag ==
  /\ fgpc = "idle"
  /\ _running' = FALSE
  /\ sock' = IF ws # 0 THEN [sock EXCEPT ![ws] = 0] ELSE sock
  /\ sent' = IF ws # 0 THEN [sent EXCEPT ![ws] = << >>] ELSE sent
  /\ connected' = connected
  /\ ret' = Ret("disconnect_websocket", TRUE, "None")
  /\ lastSent' = None
  /\ NoRequest
  /\ UNCHANGED <<env, credentials, ws, mirror, bg, fgpc, fgLocals>>

disconnect_websocket ==
  /\ fgpc = "idle"
  /\ _running' = FALSE
  /\ sock' = IF ws # 0 THEN [sock EXCEPT ![ws] = 0] ELSE sock
  /\ sent' = IF ws # 0 THEN [sent EXCEPT ![ws] = << >>] ELSE sent
  /\ connected' = FALSE
  /\ ret' = Ret("disconnect_websocket", TRUE, "None")
  /\ lastSent' = None
  /\ NoRequest
  /\ UNCHANGED <<env, credentials, ws, mirror, bg, fgpc, fgLocals>>

\* BOT_ACTION frames on the connections held
ActionsSent ==
  LET n[a \in 0..(MaxThreads + 1)] ==
        IF a = 0 THEN 0 ELSE n[a - 1] + Len(SelectSeq(sent[a], LAMBDA f : f = "BOT_ACTION"))
  IN n[MaxThreads + 1]

\* a variant of the action operations without the connected test
ActionCheck_NoTest(op) ==
  /\ fgpc = "idle"
  /\ ActionsSent < MaxActions
  /\ fgpc' = "send" /\ act' = op /\ ret' = NoRet
  /\ lastSent' = None
  /\ NoRequest
  /\ UNCHANGED <<env, credentials, ws, connected, mirror, _running, sock, bg, sent, inEnsure, polls, wsOk>>

\* the connected test that opens every action operation
ActionCheck(op) ==
  /\ fgpc = "idle"
  /\ ActionsSent < MaxActions
  /\ IF ~connected
       THEN ret' = Ret(op, FALSE, "Not connected") /\ UNCHANGED <<fgpc, act>>
       ELSE fgpc' = "send" /\ act' = op /\ ret' = NoRet
  /\ lastSent' = None
  /\ NoRequest
  /\ UNCHANGED <<env, credentials, ws, connected, mirror, _running, sock, bg, sent, inEnsure, polls, wsOk>>

move_to == ActionCheck("move_to")

interact_with == ActionCheck("interact_with")

read_notices == ActionCheck("read_notices")

accept_quest == ActionCheck("accept_quest")

celebrate == ActionCheck("celebrate")

\* self.ws.send(...) of an action operation and its return; the send raises
\* when the app holds no socket
ActionSend ==
  /\ fgpc = "send"
  /\ IF ws = 0 \/ sock[ws] = 0
       THEN ret' = Ret(act, FALSE, "exception") /\ sent' = sent /\ lastSent' = None
       ELSE /\ sent' = [sent EXCEPT ![ws] = Append(@, "BOT_ACTION")]
            /\ lastSent' = [type |-> "BOT_ACTION", action |-> ActionKind(act)]
            /\ ret' = Ret(act, TRUE, "sent")
  /\ fgpc' = "idle"
  /\ act' = "-"
  /\ NoRequest
  /\ UNCHANGED <<env, credentials, ws, connected, mirror, _running, sock, bg, inEnsure, polls, wsOk>>

\* ------------------------------------------------------- ensure_connected
\* an exception leaves ensure_connected, which catches none
Escapes ==
  /\ fgpc' = "idle"
  /\ ret' = Ret("ensure_connected", FALSE, "exception")

\* a variant of the load that registers whatever the file holds
EnsureLoad_AlwaysRegister ==
  /\ fgpc = "idle"
  /\ ws < threadLimit \/ ~HAS_WEBSOCKET
  /\ credentials' = credentials
  /\ fgpc' = "ec_register"
  /\ wsOk' = "-"
  /\ Quiet
  /\ UNCHANGED <<env, ws, connected, mirror, _running, sock, bg, sent, inEnsure, polls, act>>

\* load_credentials: json.load of CREDENTIALS_FILE when it exists
EnsureLoad ==
  /\ fgpc = "idle"
  /\ ws < threadLimit \/ ~HAS_WEBSOCKET
  /\ IF credFile = None
       THEN credentials' = credentials /\ fgpc' = "ec_register" /\ ret' = NoRet
       ELSE IF json_load(credFile.text).ok
              THEN credentials' = json_load(credFile.text).value /\ fgpc' = "ec_auth" /\ ret' = NoRet
              ELSE credentials' = credentials /\ Escapes
  /\ wsOk' = "-"
  /\ lastSent' = None
  /\ NoRequest
  /\ UNCHANGED <<env, ws, connected, mirror, _running, sock, bg, sent, inEnsure, polls, act>>

\* a variant of ensure_connected that goes on to authenticate after a
\* failed registration
RegisterFailed_GoesOn ==
  /\ fgpc' = "ec_auth"
  /\ ret' = NoRet
  /\ UNCHANGED <<credFile, credentials, saved>>

\* if not success: return False, "Registration failed: ..."
RegisterFailed ==
  /\ fgpc' = "idle"
  /\ ret' = Ret("ensure_connected", FALSE, "Registration failed")
  /\ UNCHANGED <<credFile, credentials, saved>>

\* register(name), with save_credentials on an ok result
EnsureRegister ==
  /\ fgpc = "ec_register"
  /\ \E o \in Outcomes(RegisterResults) :
       LET r == api_request(o)
       IN IF r.raised
            THEN /\ lastReq' = ReqRaised("register")
                 /\ Escapes
                 /\ UNCHANGED <<credFile, credentials, saved>>
            ELSE /\ lastReq' = Req("register", Ok(r.value))
                 /\ IF Ok(r.value)
                      THEN /\ credFile' = SavedFile([api_key |-> r.value.api_key, bot_id |-> r.value.bot_id])
                           /\ credentials' = [api_key |-> r.value.api_key, bot_id |-> r.value.bot_id]
                           /\ saved' = credentials'
                           /\ fgpc' = "ec_auth"
                           /\ ret' = NoRet
                      ELSE RegisterFailed
  /\ lastSent' = None
  /\ UNCHANGED <<threadLimit, HAS_WEBSOCKET, cli, ws, connected, mirror, _running, sock, bg, sent, fgLocals>>

\* a variant of ensure_connected that goes on to the channel after a
\* failed authentication
AuthFailed_GoesOn ==
  /\ fgpc' = IF HAS_WEBSOCKET THEN "ec_connect" ELSE "ec_status"
  /\ inEnsure' = HAS_WEBSOCKET
  /\ ret' = NoRet
  /\ UNCHANGED avatar

\* if not success: return False, "Auth failed: ..."
AuthFailed ==
  /\ fgpc' = "idle"
  /\ ret' = Ret("ensure_connected", FALSE, "Auth failed")
  /\ UNCHANGED <<avatar, inEnsure>>

\* authenticate(), then the HAS_WEBSOCKET test
EnsureAuth ==
  /\ fgpc = "ec_auth"
  /\ \E o \in Outcomes(AuthResults) :
       LET r == api_request(o)
       IN IF r.raised
            THEN /\ lastReq' = ReqRaised("auth")
                 /\ Escapes
                 /\ UNCHANGED <<avatar, inEnsure>>
            ELSE /\ lastReq' = Req("auth", Ok(r.value))
                 /\ IF Ok(r.value)
                      THEN /\ avatar' = Get(r.value, "assignedAvatar")
                           /\ fgpc' = IF HAS_WEBSOCKET THEN "ec_connect" ELSE "ec_status"
                           /\ inEnsure' = HAS_WEBSOCKET
                           /\ ret' = NoRet
                      ELSE AuthFailed
  /\ lastSent' = None
  /\ UNCHANGED <<env, credentials, ws, connected, wallet, license, world_state, _running, sock, bg, sent, polls, act, wsOk>>

\* the connect_websocket call of ensure_connected
EnsureConnect ==
  /\ fgpc = "ec_connect"
  /\ ConnectStart

\* a variant of the tutorial test without it: the task is always done
TutorialDue_Always(status) == TRUE

\* status.get('ok') and status.get('wallet', {}).get('cc', 0) == 0
TutorialDue(status) ==
  Ok(status) /\ GetOr(GetOr(status, "wallet", << >>), "cc", 0) = 0

\* self.avatar = result.get('avatar') of get_status
StatusAvatar(status) == Get(status, "avatar")

\* the assignments of get_status for its result
get_status(status) ==
  IF Ok(status)
    THEN /\ wallet' = Get(status, "wallet")
         /\ license' = Get(status, "license")
         /\ avatar' = StatusAvatar(status)
    ELSE UNCHANGED <<avatar, wallet, license>>

\* get_status() and the tutorial test
EnsureStatus ==
  /\ fgpc = "ec_status"
  /\ \E o \in Outcomes(StatusResults) :
       LET r == api_request(o)
       IN IF r.raised
            THEN /\ lastReq' = ReqRaised("status")
                 /\ Escapes
                 /\ UNCHANGED <<avatar, wallet, license>>
            ELSE /\ lastReq' = Req("status", Ok(r.value))
                 /\ get_status(r.value)
                 /\ IF TutorialDue(r.value)
                      THEN fgpc' = "ec_task" /\ ret' = NoRet
                      ELSE fgpc' = "idle" /\ ret' = Ret("ensure_connected", TRUE, "Connected and ready")
  /\ lastSent' = None
  /\ UNCHANGED <<env, credentials, ws, connected, world_state, _running, sock, bg, sent, fgLocals>>

\* complete_task('tutorial') and the return
EnsureTask ==
  /\ fgpc = "ec_task"
  /\ fgpc' = "idle"
  /\ \E o \in Outcomes(TaskResults) :
       LET r == api_request(o)
       IN IF r.raised
            THEN /\ lastReq' = ReqRaised("task")
                 /\ ret' = Ret("ensure_connected", FALSE, "exception")
            ELSE /\ lastReq' = Req("task", Ok(r.value))
                 /\ ret' = Ret("ensure_connected", TRUE, "Connected and ready")
  /\ lastSent' = None
  /\ UNCHANGED <<env, credentials, ws, connected, mirror, _running, sock, bg, sent, fgLocals>>

ensure_connected ==
  \/ EnsureLoad
  \/ EnsureRegister
  \/ EnsureAuth
  \/ EnsureConnect
  \/ EnsureStatus
  \/ EnsureTask

\* ------------------------------------------------------------ background
\* the socket opened by thread t is still held by a WebSocketApp
Open(t) == \E a \in Threads : sock[a] = t

\* a variant of the loop test that does not read _running (while True)
WsRunTest_NoFlag(t) ==
  /\ pc[t] = "test"
  /\ pc' = [pc EXCEPT ![t] = "call"]
  /\ Quiet
  /\ UNCHANGED <<env, credentials, ws, connected, mirror, _running, sock, ran, sent, fgpc, fgLocals>>

\* time.sleep(1) of the previous iteration, then: while self._running
WsRunTest(t) ==
  /\ pc[t] = "test"
  /\ pc' = [pc EXCEPT ![t] = IF _running THEN "call" ELSE "done"]
  /\ Quiet
  /\ UNCHANGED <<env, credentials, ws, connected, mirror, _running, sock, ran, sent, fgpc, fgLocals>>

\* self.ws.run_forever(): an app that holds a socket raises; a refused open
\* ends in on_error and on_close; an accepted one holds a new socket
WsRunForever(t) ==
  /\ pc[t] = "call"
  /\ ran' = [ran EXCEPT ![t] = TRUE]
  /\ \/ /\ sock[ws] # 0
        /\ pc' = [pc EXCEPT ![t] = "test"]
        /\ UNCHANGED <<connected, sock, sent>>
     \/ /\ sock[ws] = 0
        /\ connected' = FALSE
        /\ pc' = [pc EXCEPT ![t] = "test"]
        /\ UNCHANGED <<sock, sent>>
     \/ /\ sock[ws] = 0
        /\ sock' = [sock EXCEPT ![ws] = t]
        /\ sent' = [sent EXCEPT ![ws] = << >>]
        /\ pc' = [pc EXCEPT ![t] = "open"]
        /\ UNCHANGED connected
  /\ Quiet
  /\ UNCHANGED <<env, credentials, ws, mirror, _running, fgpc, fgLocals>>

\* on_open: the BOT_AUTH frame; the send raises when the socket is gone
on_open(t) ==
  /\ pc[t] = "open"
  /\ sent' = [a \in Threads |-> IF sock[a] = t THEN Append(sent[a], "BOT_AUTH") ELSE sent[a]]
  /\ lastSent' = IF Open(t)
                   THEN [type |-> "BOT_AUTH", botId |-> credentials.bot_id, token |-> credentials.api_key]
                   ELSE None
  /\ pc' = [pc EXCEPT ![t] = "recv"]
  /\ ret' = NoRet
  /\ NoRequest
  /\ UNCHANGED <<env, credentials, ws, connected, mirror, _running, sock, ran, fgpc, fgLocals>>

\* on_message: json.loads and _handle_ws_message, for a frame read from the
\* socket; a frame read just before close() is still handled after it
on_message(t) ==
  /\ pc[t] = "recv"
  /\ \E message \in Messages :
       LET s == OnMessage(message, Fields)
       IN /\ connected' = s.connected
          /\ avatar' = s.avatar
          /\ wallet' = s.wallet
          /\ license' = s.license
          /\ world_state' = s.world_state
  /\ pc' = [pc EXCEPT ![t] = IF Open(t) THEN "recv" ELSE "closing"]
  /\ ret' = NoRet
  /\ lastSent' = None
  /\ NoRequest
  /\ UNCHANGED <<env, credentials, ws, _running, sock, ran, sent, fgpc, fgLocals>>

\* a variant of on_close that only prints
on_close_KeepFlag(t) ==
  /\ pc[t] \in {"recv", "closing"}
  /\ connected' = connected
  /\ sock' = [a \in Threads |-> IF sock[a] = t THEN 0 ELSE sock[a]]
  /\ sent' = [a \in Threads |-> IF sock[a] = t THEN << >> ELSE sent[a]]
  /\ pc' = [pc EXCEPT ![t] = "test"]
  /\ Quiet
  /\ UNCHANGED <<env, credentials, ws, mirror, _running, ran, fgpc, fgLocals>>

\* the channel closes or errors (by the server, or after close()):
\* run_forever tears down, calls on_close and returns
on_close(t) ==
  /\ pc[t] \in {"recv", "closing"}
  /\ connected' = FALSE
  /\ sock' = [a \in Threads |-> IF sock[a] = t THEN 0 ELSE sock[a]]
  /\ sent' = [a \in Threads |-> IF sock[a] = t THEN << >> ELSE sent[a]]
  /\ pc' = [pc EXCEPT ![t] = "test"]
  /\ Quiet
  /\ UNCHANGED <<env, credentials, ws, mirror, _running, ran, fgpc, fgLocals>>

_ws_run(t) ==
  \/ WsRunTest(t)
  \/ WsRunForever(t)
  \/ on_open(t)
  \/ on_message(t)
  \/ on_close(t)

Next ==
  \/ connect_websocket
  \/ CwPoll
  \/ disconnect_websocket
  \/ move_to
  \/ interact_with
  \/ read_notices
  \/ accept_quest
  \/ celebrate
  \/ ActionSend
  \/ ensure_connected
  \/ \E t \in Threads : _ws_run(t)

Spec == Init /\ [][Next]_vars

\* the same agent, with one more connect_websocket call creating a thread
SpecTwo == InitTwo /\ [][Next]_vars

\* ------------------------------------------------- command-line processes
\* python3 lobster.py <command> and python3 lobster_agent.py <command>, one
\* process after the other on the same CREDENTIALS_FILE; the agent of a
\* lobster_agent.py process has no websocket library
Scripts == {"lobster.py", "lobster_agent.py"}

\* the cmd_* of lobster.py that end at once without credentials
NeedCredentials == {"auth", "status", "submit", "wallet", "task", "craft", "upgrade"}

\* the cmd_* of lobster.py that read the credentials for the server only
ServerOnly == {"stalls", "stall", "quests", "test", "economy"}

Commands(sc) ==
  IF sc = "lobster.py"
    THEN {"register"} \cup NeedCredentials \cup ServerOnly
    ELSE {"connect", "work", "check", "move", "celebrate"}

\* the exit status of the interpreter: 0 when main returns, 1 after
\* sys.exit(1) and after an uncaught exception
Exit(n) == [code |-> n]

\* the process was killed
Killed == [signal |-> "KILL"]

\* the JSON replies to the register request of lobster.py
RegisterReplies ==
  {[ok |-> TRUE, api_key |-> i.api_key, bot_id |-> i.bot_id] : i \in Identities} \cup {[ok |-> FALSE]}

\* the JSON replies to the request of another cmd_*
CommandReplies == {[ok |-> TRUE], [ok |-> FALSE, message |-> "no"]}

\* api_request of lobster.py: as the agent's, with the error body in the
\* 'HTTP code' message
lobster_api_request(o) ==
  CASE o.kind = "ok_json" -> Returned(o.body)
    [] o.kind = "ok_undecodable" -> Raises("JSONDecodeError")
    [] o.kind = "http_error_json" -> Returned(o.body)
    [] o.kind = "http_error_text" -> Returned([ok |-> FALSE, message |-> "HTTP: body"])
    [] o.kind \in {"refused", "timeout_connect"} -> Returned([ok |-> FALSE, message |-> "Connection error"])
    [] o.kind = "timeout_read" -> Raises("TimeoutError")

\* the agent fields no step of main writes without a websocket library
agentRest == <<threadLimit, HAS_WEBSOCKET, ws, connected, world_state, _running, sock, bg, sent, lastSent, fgpc, fgLocals>>

\* the process ends with exit status n; fail: it has printed a failure (a
\* message of failure, or the traceback of an uncaught exception)
Ends(n, fail) ==
  /\ cpc' = "exited"
  /\ exitCode' = Exit(n)
  /\ failed' = fail

\* a process starts: a fresh interpreter, and for lobster_agent.py a fresh
\* agent
Launch ==
  /\ cpc \in {"none", "exited"}
  /\ runs < MaxRuns
  /\ runs' = runs + 1
  /\ \E sc \in Scripts : \E c \in Commands(sc) : script' = sc /\ command' = c
  /\ cpc' = "main"
  /\ exitCode' = None
  /\ failed' = FALSE
  /\ result' = None
  /\ credentials' = None
  /\ avatar' = None
  /\ wallet' = None
  /\ license' = None
  /\ fgpc' = "idle"
  /\ ret' = NoRet
  /\ lastReq' = None
  /\ UNCHANGED <<threadLimit, HAS_WEBSOCKET, credFile, saved, ws, connected, world_state, _running, sock, bg, sent, lastSent, fgLocals>>

\* the process is killed where it is
Kill ==
  /\ cpc \notin {"none", "exited"}
  /\ cpc' = "exited"
  /\ exitCode' = Killed
  /\ ret' = NoRet
  /\ lastReq' = None
  /\ UNCHANGED <<agentRest, credFile, saved, credentials, mirror, script, command, failed, result, runs>>

\* load_credentials() of lobster.py at the top of a cmd_* other than
\* cmd_register: None without the file, json.load of it otherwise; then
\* the test of the credentials
load_credentials ==
  /\ cpc = "main"
  /\ script = "lobster.py"
  /\ command # "register"
  /\ IF credFile = None
       THEN IF command \in NeedCredentials
              THEN Ends(1, TRUE) /\ UNCHANGED credentials
              ELSE cpc' = "request" /\ UNCHANGED <<credentials, exitCode, failed>>
       ELSE IF json_load(credFile.text).ok
              THEN /\ credentials' = json_load(credFile.text).value
                   /\ cpc' = "request"
                   /\ UNCHANGED <<exitCode, failed>>
              ELSE Ends(1, TRUE) /\ UNCHANGED credentials
  /\ UNCHANGED <<agentRest, credFile, saved, mirror, ret, lastReq, script, command, result, runs>>

\* cmd_register up to save_credentials: the request, and sys.exit(1) on
\* a result that is not ok
cmd_register ==
  /\ cpc = "main"
  /\ script = "lobster.py"
  /\ command = "register"
  /\ \E o \in Outcomes(RegisterReplies) :
       LET r == lobster_api_request(o)
       IN IF r.raised
            THEN Ends(1, TRUE) /\ UNCHANGED result
            ELSE IF Ok(r.value)
                   THEN /\ result' = r.value
                        /\ cpc' = "save_open"
                        /\ UNCHANGED <<exitCode, failed>>
                   ELSE Ends(1, TRUE) /\ result' = r.value
  /\ UNCHANGED <<agentRest, credFile, saved, credentials, mirror, ret, lastReq, script, command, runs>>

\* the request of a cmd_* other than cmd_register and its end: the prints
\* of an ok result, or the failure message and sys.exit(1)
cmd_request ==
  /\ cpc = "request"
  /\ script = "lobster.py"
  /\ \E o \in Outcomes(CommandReplies) :
       LET r == lobster_api_request(o)
       IN IF r.raised
            THEN Ends(1, TRUE) /\ UNCHANGED result
            ELSE /\ result' = r.value
                 /\ IF Ok(r.value) THEN Ends(0, FALSE) ELSE Ends(1, TRUE)
  /\ UNCHANGED <<agentRest, credFile, saved, credentials, mirror, ret, lastReq, script, command, runs>>

\* save_credentials: CONFIG_DIR.mkdir and open(CREDENTIALS_FILE, 'w'),
\* which empties the file or creates it
SaveOpen ==
  /\ cpc = "save_open"
  /\ \E m \in CreateModes :
       credFile' = [text |-> << >>, mode |-> IF credFile = None THEN m ELSE credFile.mode]
  /\ cpc' = "save_dump"
  /\ UNCHANGED <<agentRest, saved, credentials, mirror, ret, lastReq, script, command, exitCode, failed, result, runs>>

\* save_credentials: json.dump and the close of the file; a write that
\* fails (OSError) leaves what was written before it
SaveDump ==
  /\ cpc = "save_dump"
  /\ LET creds == [api_key |-> result.api_key, bot_id |-> result.bot_id]
         full == json_dump(creds)
     IN \E n \in 0..Len(full) :
          /\ credFile' = [credFile EXCEPT !.text = SubSeq(full, 1, n)]
          /\ IF n = Len(full)
               THEN /\ saved' = creds
                    /\ cpc' = "save_chmod"
                    /\ UNCHANGED <<exitCode, failed>>
               ELSE /\ saved' = saved
                    /\ Ends(1, TRUE)
  /\ UNCHANGED <<agentRest, credentials, mirror, ret, lastReq, script, command, result, runs>>

\* save_credentials: os.chmod(CREDENTIALS_FILE, 0o600); then the prints of
\* cmd_register and its return
SaveChmod ==
  /\ cpc = "save_chmod"
  /\ credFile' = [credFile EXCEPT !.mode = OwnerOnly]
  /\ Ends(0, FALSE)
  /\ UNCHANGED <<agentRest, saved, credentials, mirror, ret, lastReq, script, command, result, runs>>

save_credentials ==
  \/ SaveOpen
  \/ SaveDump
  \/ SaveChmod

\* main of lobster_agent.py, command check: agent.load_credentials(), and
\* the print of "Not registered" without the file
main_check ==
  /\ cpc = "main"
  /\ script = "lobster_agent.py"
  /\ command = "check"
  /\ IF credFile = None
       THEN Ends(0, TRUE) /\ UNCHANGED credentials
       ELSE IF json_load(credFile.text).ok
              THEN /\ credentials' = json_load(credFile.text).value
                   /\ cpc' = "request"
                   /\ UNCHANGED <<exitCode, failed>>
              ELSE Ends(1, TRUE) /\ UNCHANGED credentials
  /\ UNCHANGED <<agentRest, credFile, saved, mirror, ret, lastReq, script, command, result, runs>>

\* main of lobster_agent.py, commands connect, work (check_and_work), move
\* and celebrate: the ensure_connected call they start with
main_ensure ==
  /\ cpc = "main"
  /\ script = "lobster_agent.py"
  /\ command # "check"
  /\ ret.op # "ensure_connected"
  /\ \/ EnsureLoad
     \/ EnsureRegister
     \/ EnsureAuth
     \/ EnsureStatus
     \/ EnsureTask

\* main of lobster_agent.py after ensure_connected: an exception ends the
\* process; a failure is printed and main returns; after a success connect
\* and work go on to get_status, move and celebrate call the action (which
\* returns "Not connected"), print and call disconnect_websocket
main_after ==
  /\ cpc = "main"
  /\ script = "lobster_agent.py"
  /\ ret.op = "ensure_connected"
  /\ IF ret.msg = "exception"
       THEN Ends(1, TRUE)
       ELSE IF ~ret.ok
              THEN Ends(0, TRUE)
              ELSE IF command \in {"connect", "work"}
                     THEN cpc' = "request" /\ UNCHANGED <<exitCode, failed>>
                     ELSE Ends(0, FALSE)
  /\ ret' = NoRet
  /\ lastReq' = None
  /\ UNCHANGED <<agentRest, credFile, saved, credentials, mirror, script, command, result, runs>>

\* main of lobster_agent.py: the get_status call of connect, of check and
\* of do_work_cycle, and what follows it; the rest of do_work_cycle (its
\* task or quest requests) ends ready, with "No quests available" or in an
\* exception of a request
main_status ==
  /\ cpc = "request"
  /\ script = "lobster_agent.py"
  /\ \E o \in Outcomes(StatusResults) :
       LET r == api_request(o)
       IN IF r.raised
            THEN Ends(1, TRUE) /\ UNCHANGED <<avatar, wallet, license, result>>
            ELSE /\ get_status(r.value)
                 /\ result' = r.value
                 /\ CASE command = "check" -> Ends(0, ~Ok(r.value))
                      [] command = "connect" -> Ends(0, FALSE)
                      [] command = "work" ->
                           IF ~Ok(r.value)
                             THEN Ends(0, TRUE)
                             ELSE \E rest \in {"ready", "no quests", "exception"} :
                                    CASE rest = "ready" -> Ends(0, FALSE)
                                      [] rest = "no quests" -> Ends(0, TRUE)
                                      [] rest = "exception" -> Ends(1, TRUE)
  /\ UNCHANGED <<agentRest, credFile, saved, credentials, ret, lastReq, script, command, runs>>

CliNext ==
  \/ Launch
  \/ Kill
  \/ load_credentials
  \/ cmd_register
  \/ cmd_request
  \/ save_credentials
  \/ main_check
  \/ main_ensure
  \/ main_after
  \/ main_status

InitCli == Start /\ ~HAS_WEBSOCKET /\ threadLimit = MaxThreads

SpecCli == InitCli /\ [][CliNext]_vars

\* --------------------------------------------------------- check_and_work
\* a host process creates the agent and calls check_and_work() once, with
\* the thread that call starts running beside it; cpc is the caller's
\* position in check_and_work and do_work_cycle, failed is 'not success'

\* the status replies of do_work_cycle: those of the bootstrap, and one of
\* a bot that holds a license
WorkStatusResults ==
  StatusResults \cup {[ok |-> TRUE, wallet |-> [cc |-> 5], license |-> [tier |-> "CITIZEN"]]}

Quest1 == [title |-> "Forge", stall |-> "forge_stall"]

QuestsResults == {[ok |-> TRUE, quests |-> <<Quest1>>], [ok |-> TRUE, quests |-> << >>], [ok |-> TRUE], [ok |-> FALSE]}

StallResults == {[ok |-> TRUE], [ok |-> FALSE]}

\* status.get('license', {}).get('tier', 'VISITOR')
license_tier(status) == GetOr(GetOr(status, "license", << >>), "tier", "VISITOR")

\* what no step of check_and_work outside ensure_connected and
\* disconnect_websocket writes
workRest == <<threadLimit, HAS_WEBSOCKET, credFile, saved, script, command, exitCode, result, runs, credentials, ws, connected, world_state, _running, sock, bg, fgpc, fgLocals>>

\* return f"{'✅' if success else '❌'} {msg}"
WorkReturns(ok, msg) ==
  /\ cpc' = "returned"
  /\ ret' = Ret("check_and_work", ok, msg)
  /\ failed' = ~ok

\* an exception leaves do_work_cycle and check_and_work, which catch none
WorkRaises ==
  /\ cpc' = "returned"
  /\ ret' = Ret("check_and_work", FALSE, "exception")
  /\ failed' = TRUE

\* the caller holds a value just returned to it; its test of that value
\* reads nothing shared, so it is taken as the next step
Pending ==
  \/ cpc = "check_and_work" /\ ret.op = "ensure_connected"
  \/ cpc = "disconnect" /\ ret.op = "disconnect_websocket"

\* the call of check_and_work on the new agent
CheckCall ==
  /\ cpc = "none"
  /\ fgpc = "idle"
  /\ cpc' = "check_and_work"
  /\ Quiet
  /\ UNCHANGED <<workRest, mirror, sent, failed>>

\* success, msg = self.ensure_connected()
CheckEnsure ==
  /\ cpc = "check_and_work"
  /\ ret.op # "ensure_connected"
  /\ \/ ensure_connected
     \/ CwPoll

\* if not success: return; an exception of ensure_connected goes on up
CheckAfterEnsure ==
  /\ cpc = "check_and_work"
  /\ ret.op = "ensure_connected"
  /\ IF ret.msg = "exception"
       THEN WorkRaises
       ELSE IF ~ret.ok
              THEN WorkReturns(FALSE, ret.msg)
              ELSE cpc' = "status" /\ ret' = NoRet /\ failed' = failed
  /\ lastSent' = None
  /\ NoRequest
  /\ UNCHANGED <<workRest, mirror, sent>>

\* do_work_cycle: get_status(), the test of its result and of the tier
WorkStatus ==
  /\ cpc = "status"
  /\ \E o \in Outcomes(WorkStatusResults) :
       LET r == api_request(o)
       IN IF r.raised
            THEN /\ lastReq' = ReqRaised("status")
                 /\ WorkRaises
                 /\ UNCHANGED <<avatar, wallet, license>>
            ELSE /\ lastReq' = Req("status", Ok(r.value))
                 /\ get_status(r.value)
                 /\ ret' = NoRet
                 /\ IF ~Ok(r.value)
                      THEN cpc' = "test" /\ failed' = TRUE
                      ELSE /\ cpc' = IF license_tier(r.value) = "VISITOR" THEN "daily_checkin" ELSE "quests"
                           /\ failed' = failed
  /\ lastSent' = None
  /\ UNCHANGED <<workRest, sent>>

\* do_work_cycle of a VISITOR: complete_task('daily_checkin') and
\* complete_task('read_notices'), whose results are not looked at
WorkDaily ==
  /\ cpc \in {"daily_checkin", "read_notices"}
  /\ \E o \in Outcomes(TaskResults) :
       LET r == api_request(o)
       IN IF r.raised
            THEN lastReq' = ReqRaised("task") /\ WorkRaises
            ELSE /\ lastReq' = Req("task", Ok(r.value))
                 /\ ret' = NoRet
                 /\ IF cpc = "daily_checkin"
                      THEN cpc' = "read_notices" /\ failed' = failed
                      ELSE cpc' = "test" /\ failed' = FALSE
  /\ lastSent' = None
  /\ UNCHANGED <<workRest, mirror, sent>>

\* do_work_cycle: get_quests() and the choice of the first quest
WorkQuests ==
  /\ cpc = "quests"
  /\ \E o \in Outcomes(QuestsResults) :
       LET r == api_request(o)
       IN IF r.raised
            THEN lastReq' = ReqRaised("quests") /\ WorkRaises
            ELSE /\ lastReq' = Req("quests", Ok(r.value))
                 /\ ret' = NoRet
                 /\ IF ~Ok(r.value) \/ GetOr(r.value, "quests", << >>) = << >>
                      THEN cpc' = "test" /\ failed' = TRUE
                      ELSE cpc' = "connected" /\ failed' = failed
  /\ lastSent' = None
  /\ UNCHANGED <<workRest, mirror, sent>>

\* do_work_cycle: if self.connected: before the two actions
WorkConnected ==
  /\ cpc = "connected"
  /\ cpc' = IF connected THEN "move_to" ELSE "instructions"
  /\ Quiet
  /\ UNCHANGED <<workRest, mirror, sent, failed>>

\* the connected test of the action operation op called by do_work_cycle,
\* which does not look at what the operation returns
WorkActionTest(op, sending, after) ==
  /\ cpc = op
  /\ cpc' = IF connected THEN sending ELSE after
  /\ Quiet
  /\ UNCHANGED <<workRest, mirror, sent, failed>>

\* self.ws.send(...) of that action operation; the send raises when the
\* app holds no socket
WorkActionSend(op, sending, after) ==
  /\ cpc = sending
  /\ IF ws = 0 \/ sock[ws] = 0
       THEN WorkRaises /\ sent' = sent /\ lastSent' = None
       ELSE /\ sent' = [sent EXCEPT ![ws] = Append(@, "BOT_ACTION")]
            /\ lastSent' = [type |-> "BOT_ACTION", action |-> ActionKind(op)]
            /\ cpc' = after
            /\ ret' = NoRet
            /\ failed' = failed
  /\ NoRequest
  /\ UNCHANGED <<workRest, mirror>>

\* do_work_cycle: self.move_to(pos[0], pos[1])
WorkMove ==
  \/ WorkActionTest("move_to", "move_to_send", "interact_with")
  \/ WorkActionSend("move_to", "move_to_send", "interact_with")

\* do_work_cycle: self.interact_with(stall_id=quest['stall'])
WorkInteract ==
  \/ WorkActionTest("interact_with", "interact_with_send", "instructions")
  \/ WorkActionSend("interact_with", "interact_with_send", "instructions")

\* do_work_cycle: get_stall_instructions() and the return of success
WorkInstructions ==
  /\ cpc = "instructions"
  /\ \E o \in Outcomes(StallResults) :
       LET r == api_request(o)
       IN IF r.raised
            THEN lastReq' = ReqRaised("stall") /\ WorkRaises
            ELSE /\ lastReq' = Req("stall", Ok(r.value))
                 /\ ret' = NoRet
                 /\ cpc' = "test"
                 /\ failed' = FALSE
  /\ lastSent' = None
  /\ UNCHANGED <<workRest, mirror, sent>>

do_work_cycle ==
  \/ WorkStatus
  \/ WorkDaily
  \/ WorkQuests
  \/ WorkConnected
  \/ WorkMove
  \/ WorkInteract
  \/ WorkInstructions

\* if self.connected: before disconnect_websocket, and the return without
\* it
CheckTest ==
  /\ cpc = "test"
  /\ IF connected
       THEN cpc' = "disconnect" /\ ret' = NoRet /\ failed' = failed
       ELSE WorkReturns(~failed, "work cycle")
  /\ lastSent' = None
  /\ NoRequest
  /\ UNCHANGED <<workRest, mirror, sent>>

\* self.disconnect_websocket() of check_and_work
CheckDisconnect ==
  /\ cpc = "disconnect"
  /\ ret.op # "disconnect_websocket"
  /\ disconnect_websocket

\* the return that follows it
CheckReturn ==
  /\ cpc = "disconnect"
  /\ ret.op = "disconnect_websocket"
  /\ WorkReturns(~failed, "work cycle")
  /\ lastSent' = None
  /\ NoRequest
  /\ UNCHANGED <<workRest, mirror, sent>>

check_and_work ==
  \/ CheckCall
  \/ CheckEnsure
  \/ CheckAfterEnsure
  \/ do_work_cycle
  \/ CheckTest
  \/ CheckDisconnect
  \/ CheckReturn

\* the threads started by the call, which go on after it has returned
WorkBackground ==
  /\ ~Pending
  /\ \E t \in Threads : _ws_run(t)

WorkNext ==
  \/ check_and_work
  \/ WorkBackground

SpecWork == Init /\ [][WorkNext]_vars

\* ================================================================ claims

\* C1: an action operation (move_to, interact_with, read_notices,
\* accept_quest, celebrate) called while the connected flag is false returns
\* the "Not connected" failure, puts no frame on any connection and never
\* gets to its send.
C1_NotConnectedNoSend ==
  [][(fgpc = "idle" /\ ~connected) =>
       /\ fgpc' # "send"
       /\ ret'.op \in ActionOps =>
            /\ ret' = Ret(ret'.op, FALSE, "Not connected")
            /\ sent' = sent
            /\ lastSent' = None]_vars

\* an action operation has just failed as not connected in a session that
\* is authenticated (credentials and avatar set) but not live
C1_Witness ==
  /\ ret.op \in ActionOps
  /\ ret.msg = "Not connected"
  /\ credentials # None
  /\ avatar = Avatar1
  /\ ~connected

C3_FailedOpenStaysDown == (wsOk = "failed" /\ fgpc = "idle") => ~connected

\* C4: when the wait loop of connect_websocket ends without the connected
\* flag set, the background loop is stopped and the socket is closed.
C4_TimeoutTearsDown ==
  [][(fgpc = "poll" /\ polls = PollLimit /\ fgpc' # "poll") =>
       (~_running' /\ sock'[ws'] = 0)]_vars

\* C5: disconnect_websocket returns normally with the connected flag
\* false and the loop flag cleared, and a call that follows another
\* disconnect_websocket at once changes no field of the agent or of its
\* connection.
C5_DisconnectIdempotent ==
  [][ret'.op = "disconnect_websocket" =>
       /\ ret'.ok
       /\ ~connected'
       /\ ~_running'
       /\ ret.op = "disconnect_websocket" =>
            UNCHANGED <<credentials, ws, connected, mirror, _running, sock, sent>>]_vars

\* disconnect_websocket has just returned in a session that had a channel
\* and a populated Mirror, and may be called again
C5_Witness ==
  /\ ret.op = "disconnect_websocket"
  /\ ws # 0
  /\ avatar # None
  /\ fgpc = "idle"

\* C6: after disconnect_websocket (the loop flag is false) no background
\* thread begins another run_forever.
C6_NoRunAfterDisconnect ==
  [][\A t \in Threads : (pc[t] = "call" /\ pc'[t] # "call") => _running]_vars

\* C7: from every state in which a message can arrive, handling an
\* AUTH_SUCCESS frame sets the connected flag and makes avatar, wallet and
\* license exactly the frame's values (None for a key the frame does not
\* have).
C7_AuthSuccessReplaces ==
  Receiving =>
    \A f \in Frames :
      GetOr(f, "type", "") = "AUTH_SUCCESS" =>
        LET s == OnMessage([json |-> f], Fields)
        IN /\ s.connected
           /\ s.avatar = Get(f, "avatar")
           /\ s.wallet = Get(f, "wallet")
           /\ s.license = Get(f, "license")

\* an AUTH_SUCCESS frame without avatar has been handled after one with an
\* avatar: the session is connected, the avatar is gone and the license is
\* the frame's
C7_Witness ==
  /\ Receiving
  /\ connected
  /\ avatar = None
  /\ license = [tier |-> "CITIZEN"]

\* C8: from every state in which a message can arrive, handling an
\* AUTH_FAILED frame leaves avatar, wallet, license and world_state
\* unchanged and leaves the connected flag false.
C8_AuthFailedNotLive ==
  Receiving =>
    LET s == OnMessage([json |-> FAuthFailed], Fields)
    IN /\ <<s.avatar, s.wallet, s.license, s.world_state>> = mirror
       /\ ~s.connected

\* C9: from every state in which a message can arrive, handling an
\* ACTION_RESULT frame with a true success flag gives the avatar the
\* frame's value for each of x, y, state the data has, and keeps every
\* other avatar field, wallet, license, world_state and the connected flag.
C9_PartialMerge ==
  Receiving =>
    \A f \in Frames :
      (GetOr(f, "type", "") = "ACTION_RESULT" /\ Success(f)) =>
        LET s == OnMessage([json |-> f], Fields)
            d == GetOr(f, "data", << >>)
            keys == DOMAIN d \cap {"x", "y", "state"}
        IN /\ \A k \in keys : k \in DOMAIN s.avatar /\ s.avatar[k] = d[k]
           /\ \A k \in DOMAIN avatar \ keys : k \in DOMAIN s.avatar /\ s.avatar[k] = avatar[k]
           /\ s.wallet = wallet
           /\ s.license = license
           /\ s.world_state = world_state
           /\ s.connected = connected

\* C10: from every state in which a message can arrive, handling an
\* ACTION_RESULT frame whose success flag is false or missing leaves avatar,
\* wallet, license, world_state and the connected flag unchanged.
C10_FailedResultNoChange ==
  Receiving =>
    \A f \in Frames :
      (GetOr(f, "type", "") = "ACTION_RESULT" /\ ~Success(f)) =>
        LET s == OnMessage([json |-> f], Fields)
        IN /\ <<s.avatar, s.wallet, s.license, s.world_state>> = mirror
           /\ s.connected = connected

\* a failed ACTION_RESULT with x = 99 in its data can arrive while the
\* avatar has the position it got from AUTH_SUCCESS
C10_Witness ==
  /\ Receiving
  /\ avatar = Avatar1
  /\ connected

\* C11: from every state in which a message can arrive, handling a
\* WORLD_STATE frame makes world_state exactly the frame's state (nothing of
\* the snapshot held before stays) and leaves avatar, wallet, license and
\* the connected flag as they were; so after any sequence of such frames
\* world_state is the state of the last one.
C11_WorldStateReplaces ==
  Receiving =>
    \A f \in Frames :
      GetOr(f, "type", "") = "WORLD_STATE" =>
        LET s == OnMessage([json |-> f], Fields)
        IN /\ s.world_state = Get(f, "state")
           /\ s.avatar = avatar
           /\ s.wallet = wallet
           /\ s.license = license
           /\ s.connected = connected

\* a second WORLD_STATE frame, with other fields, can arrive while the
\* snapshot of a first one is held
C11_Witness ==
  /\ Receiving
  /\ world_state = FWorldState.state
  /\ avatar = Avatar1

\* C12: from every state in which a message can arrive, handling an
\* AVATAR_UPDATE or a LEDGER_EVENT frame leaves avatar, wallet, license,
\* world_state and the connected flag unchanged.
C12_InformationalNoChange ==
  Receiving =>
    \A f \in Frames :
      GetOr(f, "type", "") \in {"AVATAR_UPDATE", "LEDGER_EVENT"} =>
        LET s == OnMessage([json |-> f], Fields)
        IN /\ <<s.avatar, s.wallet, s.license, s.world_state>> = mirror
           /\ s.connected = connected

\* a LEDGER_EVENT frame that carries a wallet can arrive while the session
\* is connected and holds another wallet
C12_Witness ==
  /\ Receiving
  /\ connected
  /\ wallet = [cc |-> 0]
  /\ avatar = Avatar1

\* C13: from every state in which a message can arrive, handling a frame
\* whose type is none of the six known ones, or that has no type, raises
\* nothing and leaves avatar, wallet, license, world_state and the
\* connected flag unchanged.
C13_UnknownIgnored ==
  Receiving =>
    \A f \in Frames :
      GetOr(f, "type", "") \notin KnownTypes =>
        OnMessage([json |-> f], Fields) = Fields

\* a FUTURE_EVENT frame that carries an avatar can arrive while the session
\* is connected and holds a world snapshot
C13_Witness ==
  /\ Receiving
  /\ connected
  /\ avatar = Avatar1
  /\ world_state # None

\* C14: from every state in which a message can arrive, a message that is
\* no JSON, or whose JSON is no object, raises nothing out of on_message
\* and leaves avatar, wallet, license, world_state and the connected flag
\* unchanged.
C14_MalformedDropped ==
  Receiving =>
    \A m \in {NotJson, [json |-> JsonList]} : OnMessage(m, Fields) = Fields

\* C15: the connected flag is true only while some thread is inside
\* run_forever on a channel whose close or error has not been processed
\* yet: once on_close has run for it, the flag is false.
C15_ClosedNotLive ==
  connected => \E t \in Threads : pc[t] \in {"recv", "closing"}

\* a session that had handled AUTH_SUCCESS (the license is the frame's) has
\* lost its channel without any disconnect_websocket: on_close has run, the
\* loop is in its sleep and the flag is false
C15_Witness ==
  /\ \E t \in Threads : pc[t] = "test" /\ ran[t]
  /\ _running
  /\ ws # 0
  /\ sock[ws] = 0
  /\ license = [tier |-> "CITIZEN"]
  /\ ~connected

\* C16: at most one _ws_run thread is alive (started and not returned) in
\* every reachable state.
C16_OneLoopAlive ==
  Cardinality({t \in Threads : pc[t] \notin {"none", "done"}}) <= 1

\* C17: while a thread is in the receive loop of an opened channel, no step
\* of the foreground caller changes avatar, wallet, license or world_state.
C17_BackgroundOnlyWriter ==
  [][(Receiving /\ (fgpc' # fgpc \/ ret' # NoRet \/ lastReq' # None)) =>
       mirror' = mirror]_vars

\* C18: the first frame sent on every connection is BOT_AUTH: no BOT_ACTION
\* frame is on a connection before its BOT_AUTH frame.
C18_AuthFrameFirst ==
  \A a \in Threads : sent[a] # << >> => sent[a][1] = "BOT_AUTH"

\* C19: when the registration request of ensure_connected has come back
\* non-ok, ensure_connected has returned its failure in that same step, so
\* after this one request and no other; no credentials are in the file or
\* in memory, and no channel and no thread exist.
C19_RegistrationFailureFatal ==
  lastReq = Req("register", FALSE) =>
    /\ ret = Ret("ensure_connected", FALSE, "Registration failed")
    /\ fgpc = "idle"
    /\ credentials = None
    /\ credFile = None
    /\ ws = 0
    /\ \A t \in Threads : pc[t] = "none"
    /\ ~connected

\* ensure_connected has just been refused registration
C19_Witness ==
  /\ lastReq = Req("register", FALSE)
  /\ ret.op = "ensure_connected"
  /\ ~ret.ok

\* C20: the step in which the authentication request of ensure_connected
\* comes back non-ok is the return of ensure_connected with its failure, so
\* after this one request and no other; it changes neither the avatar nor
\* any other Mirror field, creates no WebSocketApp and starts no thread.
C20_AuthFailureFatal ==
  [][lastReq' = Req("auth", FALSE) =>
       /\ ret' = Ret("ensure_connected", FALSE, "Auth failed")
       /\ fgpc' = "idle"
       /\ UNCHANGED <<mirror, connected, ws, _running, pc, sock, sent>>]_vars

\* ensure_connected has just been refused authentication in a session that
\* holds an avatar from before
C20_Witness ==
  /\ lastReq = Req("auth", FALSE)
  /\ ret = Ret("ensure_connected", FALSE, "Auth failed")
  /\ avatar = Avatar1

\* the request of the step went to this endpoint
Requested(req, endpoint) == req # None /\ req.endpoint = endpoint

\* C21: when ensure_connected ends after its authentication request came
\* back ok (it ends in the step of its status or of its tutorial request),
\* it returns success, whatever the connect_websocket call gave (no
\* library, refusal, AUTH_FAILED, timeout), and the credentials the
\* request/response operations need are held.
C21_ChannelFailureNotFatal ==
  (ret.op = "ensure_connected" /\ (Requested(lastReq, "status") \/ Requested(lastReq, "task"))) =>
    /\ ret = Ret("ensure_connected", TRUE, "Connected and ready")
    /\ credentials # None

\* the bootstrap steps of a lobster_agent.py process
Bootstrapping == cpc = "main" /\ script = "lobster_agent.py" /\ command # "check"

\* C22: in every step of a bootstrap: a registration request is made only
\* from the register step and only when CREDENTIALS_FILE does not exist;
\* the load goes to the register step exactly when the file does not
\* exist, and the register step ends with the registration request; when
\* the file exists, the credentials the authentication uses are the ones
\* loaded from it, and the file stays as it is through every step.
C22_RegisterIffNoIdentity ==
  [][Bootstrapping =>
       /\ Requested(lastReq', "register") => (credFile = None /\ fgpc = "ec_register")
       /\ (fgpc = "idle" /\ fgpc' \in {"ec_register", "ec_auth"}) => (fgpc' = "ec_register" <=> credFile = None)
       /\ (fgpc = "ec_register" /\ fgpc' # "ec_register") => Requested(lastReq', "register")
       /\ (fgpc = "idle" /\ fgpc' = "ec_auth") => credentials' = json_load(credFile.text).value
       /\ (fgpc = "ec_auth" /\ Requested(lastReq', "auth")) => credentials = json_load(credFile.text).value
       /\ credFile # None => credFile' = credFile]_vars

\* a bootstrap has loaded the Identity another process registered and
\* saved, and is about to authenticate with it
C22_Witness ==
  /\ Bootstrapping
  /\ fgpc = "ec_auth"
  /\ credentials = Identity2
  /\ credFile = SavedFile(Identity2)

\* C23 as stated: the status step of the bootstrap goes on to the tutorial
\* request exactly when the status came back ok with a wallet whose balance
\* cc is zero; with a balance that is not zero or that cannot be read, it
\* does not.
C23_TutorialIffZero ==
  Requested(lastReq, "status") =>
    (fgpc = "ec_task" <=>
       (lastReq = Req("status", TRUE) /\ wallet # None /\ "cc" \in DOMAIN wallet /\ wallet.cc = 0))

\* the wallet get_status has just stored has no balance other than zero
ZeroOrMissing(w) == w = None \/ GetOr(w, "cc", 0) = 0

\* C23 amended: the tutorial request is made only by the step that follows
\* the status step, once, and that step ends the bootstrap; the status step
\* goes on to it exactly when the status came back ok and its wallet
\* balance is zero or missing from the result (no wallet, or no cc in it).
C23_TutorialIffZeroOrMissing ==
  [][/\ Requested(lastReq', "task") => (fgpc = "ec_task" /\ fgpc' = "idle")
     /\ (fgpc = "ec_task" /\ fgpc' # "ec_task") => Requested(lastReq', "task")
     /\ (fgpc # "ec_task" /\ fgpc' = "ec_task") => Requested(lastReq', "status")
     /\ Requested(lastReq', "status") =>
          (fgpc' = "ec_task" <=> (lastReq' = Req("status", TRUE) /\ ZeroOrMissing(wallet')))]_vars

\* the status of the bootstrap came back ok without a wallet, and the
\* tutorial request is next
C23_Witness ==
  /\ fgpc = "ec_task"
  /\ lastReq = Req("status", TRUE)
  /\ wallet = None
  /\ avatar = Avatar1

\* C24: when ensure_connected has returned success (so after the
\* authentication came back ok and the rest of the bootstrap ran), the
\* credentials are held and the avatar is not None.
C24_AvatarAfterBootstrap ==
  ret = Ret("ensure_connected", TRUE, "Connected and ready") =>
    /\ credentials # None
    /\ avatar # None

\* C25: the credentials a process holds after load_credentials have the
\* api_key and the bot_id of the Identity last given to save_credentials
\* and written in full, by this process or by an earlier one.
C25_RoundTrip ==
  credentials # None =>
    /\ saved # None
    /\ credentials.api_key = saved.api_key
    /\ credentials.bot_id = saved.bot_id

\* a second process has loaded the Identity, with a quote and a backslash
\* in its strings, that the first process registered and saved
C25_Witness ==
  /\ runs = 2
  /\ script = "lobster.py"
  /\ cpc = "request"
  /\ credentials = Identity2

\* C26: after a process has ended, in whatever way and at whatever step
\* of save_credentials, CREDENTIALS_FILE, when it exists, holds the whole
\* JSON text of an Identity.
C26_WholeIdentityOnDisk ==
  (cpc = "exited" /\ credFile # None) =>
    /\ json_load(credFile.text).ok
    /\ \E i \in Identities : credFile.text = json_dump(i)

\* C27: whenever CREDENTIALS_FILE exists and its text has the api_key, its
\* mode is 0o600.
C27_OwnerOnlyWithKey ==
  (credFile # None /\ \E i \in 1..Len(credFile.text) :
                        "key" \in DOMAIN credFile.text[i] /\ credFile.text[i].key = "api_key") =>
    credFile.mode = OwnerOnly

\* C28: no request of the agent ends in an exception that leaves
\* api_request: for every transport outcome the caller gets a result.
C28_StructuredResult ==
  lastReq # None => "raised" \notin DOMAIN lastReq

\* C29: a command-line process that ended by itself has exit status 1 when
\* it printed a failure and exit status 0 when it did not.
C29_ExitCodeTellsFailure ==
  (cpc = "exited" /\ exitCode # Killed) =>
    exitCode = Exit(IF failed THEN 1 ELSE 0)

\* C30: an action operation that found the connected flag true returns
\* with exactly one BOT_ACTION frame of its kind put on the connection by
\* its step, and a connection opened again starts without frames (nothing
\* is sent again).
C30_OneFramePerCall ==
  /\ (ret.op \in ActionOps /\ ret.msg # "Not connected") =>
       /\ ret = Ret(ret.op, TRUE, "sent")
       /\ lastSent = [type |-> "BOT_ACTION", action |-> ActionKind(ret.op)]
  /\ \A a \in Threads : sock[a] = 0 => sent[a] = << >>

\* C31: once disconnect_websocket has returned (the loop flag and the
\* connected flag are both false, and no connect_websocket has started a
\* thread since), no step sets the connected flag back to true: neither a
\* frame handled late by the background thread nor one received by a
\* run_forever begun after the disconnect.
C31_StaysDisconnected ==
  [][(~_running /\ ~connected) => ~connected']_vars

\* C32: an action operation that returns success has put its BOT_ACTION
\* frame on an open channel in that step, and no action operation performs
\* ws.send on a channel that has closed since its connected test: none
\* ends in the exception of a send without a socket.
C32_NoSendOnClosedChannel ==
  /\ (ret.op \in ActionOps /\ ret.ok) =>
       (lastSent # None /\ lastSent.type = "BOT_ACTION")
  /\ ret.op \in ActionOps => ret.msg # "exception"

\* C33: when check_and_work returns (not by an exception), the connected
\* flag is false and no thread the call started is in a receive loop on an
\* open channel or able to open the channel again: the loop flag is false
\* and no thread is about to call run_forever.
C33_NoLoopLeft ==
  (ret.op = "check_and_work" /\ ret.msg # "exception") =>
    /\ ~connected
    /\ \A t \in Threads :
         pc[t] \notin {"none", "done"} =>
           (~_running /\ pc[t] # "call" /\ ~Open(t))

\* C34: from every state in which a message can arrive, handling a frame
\* of a known type whose fields are of the kinds the handler expects ends
\* without an exception, whatever the Mirror holds: also a successful
\* ACTION_RESULT with x, y or state while the avatar is None, and an
\* AUTH_SUCCESS without an avatar.
C34_KnownFramesHandled ==
  Receiving =>
    \A f \in Frames :
      (GetOr(f, "type", "") \in KnownTypes /\ IsDict(GetOr(f, "event", << >>))) =>
        ~OnMessage([json |-> f], Fields).raised

====
